---- MODULE Spec2Model ----
(***************************************************************************)
(* A model of examples/run_parsing.py: the decoder                         *)
(* (write_predictions_word_segmentation, has_cycle), the feature builder   *)
(* (convert_examples_to_features) and the tag vocabulary                   *)
(* (TokenLabelVocabulary).                                                 *)
(*                                                                         *)
(* Python lists are modelled as TLA+ sequences.  The VALUES kept in them   *)
(* (character indices, word indices, token positions) are the 0-based      *)
(* values of the code; element x of a Python list s is s[x + 1] here.      *)
(***************************************************************************)
EXTENDS Integers, Sequences, FiniteSets, TLC

\* ------------------------------------------------------------------ bounds
\* largest number of characters (units) of one Example
MaxChars == 3
\* largest number of sub-tokens the tokenizer returns for one unit
MaxPieces == 2
\* number of ranked candidate heads the scorer returns per position (top-k)
TopK == 4
\* largest number of units of an Example handed to the feature builder
MaxUnits == 2
\* largest number of training Examples, and of tags of one Example, the
\* vocabulary is built from
MaxExamples == 2
MaxTags == 2
\* size of the sub-token vocabulary: the id of the ROOT slot
vocab_size == 2

\* the characters of an Example: the code never looks into a character, so
\* one sentence of each length stands for all of them
Letters == <<"a", "b", "c", "d", "e", "f", "g", "h">>

\* --max_seq_length: room for [CLS], the sub-tokens, [SEP] and ROOT when each
\* of MaxChars units is one sub-token
max_seq_length == MaxChars + 3

\* ------------------------------------------------------- Python semantics
\* Python's None (parent_word_index, head_id, dep_label before assignment);
\* every index the code stores is >= 0, so -1 is free to stand for it.
None == -1

\* s[idx] of a Python list: a negative idx counts from the end.  Only used
\* where the code has established -len(s) <= idx < len(s).
PyIndex(s, idx) == IF idx >= 0 THEN s[idx + 1] ELSE s[Len(s) + idx + 1]

\* x in s, for a Python list s
PyIn(x, s) == \E n \in 1..Len(s) : s[n] = x

RECURSIVE SumSeq(_)
SumSeq(s) == IF s = <<>> THEN 0 ELSE Head(s) + SumSeq(Tail(s))

RECURSIVE Concat(_)
\* "".join(word list): the characters of a word list, in order
Concat(ws) == IF ws = <<>> THEN <<>> ELSE Head(ws) \o Concat(Tail(ws))

\* ------------------------------------------------- TokenLabelVocabulary
\* The unknown marker: the int -1 among the tags of an Example (tags proper
\* are strings, which never equal it).
UnknownTag == "<-1>"

\* TokenLabelVocabulary.__init__: both maps empty
EmptyVocabulary == [label_to_index |-> <<>>, index_to_label |-> <<>>]

\* ReadTag with the index taken after the append (one too large)
ReadTagIndexAfterAppend(voc, tag) ==
    IF tag = UnknownTag THEN voc
    ELSE IF tag \in DOMAIN voc.label_to_index THEN voc
    ELSE [label_to_index |-> voc.label_to_index @@ (tag :> Len(voc.index_to_label) + 1),
          index_to_label |-> Append(voc.index_to_label, tag)]

\* the body of read_examples' inner loop for one tag
ReadTag(voc, tag) ==
    IF tag = UnknownTag THEN voc
    ELSE IF tag \in DOMAIN voc.label_to_index THEN voc
    ELSE [label_to_index |-> voc.label_to_index @@ (tag :> Len(voc.index_to_label)),
          index_to_label |-> Append(voc.index_to_label, tag)]

RECURSIVE ReadTags(_, _)
\* read_examples' loops over the tags of the Examples in order
\* (tags: the Examples' tag lists of the namespace, concatenated)
ReadTags(voc, tags) ==
    IF tags = <<>> THEN voc ELSE ReadTags(ReadTag(voc, Head(tags)), Tail(tags))

\* read_examples' loops over train_examples (a list of tag lists)
read_examples(train_examples) == ReadTags(EmptyVocabulary, Concat(train_examples))

\* NumLabelOk taking a declared num_label that is at least the number of labels
NumLabelAtLeast(declared, voc) ==
    declared = None \/ declared >= Len(voc.index_to_label)

\* read_examples' closing check: num_label, when declared, is the size built
NumLabelOk(num_label, voc) == num_label = None \/ num_label = Len(voc.index_to_label)

\* the index add_indices stores for one tag; "KeyError" when the tag is not
\* in label_to_index
TagIndex(voc, tag) ==
    IF tag = UnknownTag THEN -1
    ELSE IF tag \in DOMAIN voc.label_to_index THEN voc.label_to_index[tag]
    ELSE "KeyError"

\* add_indices for one Example: the list appended to token_tag_indices
add_indices(voc, tags) == [n \in 1..Len(tags) |-> TagIndex(voc, tags[n])]

\* index_to_label[idx] as the decoder evaluates it: a Python list lookup
IndexToLabel(index_to_label, idx) ==
    IF idx >= Len(index_to_label) \/ idx < -Len(index_to_label) THEN "IndexError"
    ELSE PyIndex(index_to_label, idx)

\* ------------------------------------------------------------ tokenizer
\* get_tokenized_tokens is not part of the source at hand; by its interface
\* it returns the sub-tokens of the units in order with both index maps.
\* pcs[u] is the number of sub-tokens of unit u; the first sub-token of a
\* unit is a word start, the others are continuations ("##...").
tok_to_orig_index_of(pcs) ==
    LET F[n \in 0..Len(pcs)] ==
            IF n = 0 THEN <<>> ELSE F[n - 1] \o [j \in 1..pcs[n] |-> n - 1]
    IN  F[Len(pcs)]

orig_to_tok_index_of(pcs) ==
    [u \in 1..Len(pcs) |-> SumSeq(SubSeq(pcs, 1, u - 1))]

\* token.startswith("##") for the sub-token at index j (0-based)
IsContinuation(pcs, j) ==
    LET t2o == tok_to_orig_index_of(pcs)
    IN  j > 0 /\ t2o[j + 1] = t2o[j]

\* the tokenizations of n units
Tokenizations(n) == [1..n -> 1..MaxPieces]

\* ------------------------------------------------------------- variables
VARIABLES
    \* --- one call of write_predictions_word_segmentation -------------------
    pc,                 \* "start", "head" (the loop over words), "done", "error"
    err,                \* the exception that ended the call, "" if none
    parsing,            \* the flags of the call
    estimate_dep_label,
    use_gold_segmentation_in_test,
    example_words,      \* example.words: the characters
    gold_words,         \* example.gold_words (<<>> when None)
    orig_to_tok_index,  \* feature.orig_to_tok_index
    index_to_label,     \* token_label_vocabulary["word_segmentation"].index_to_label
    token_tags,         \* result.token_tags["word_segmentation"] at the position of
                        \* each character (0 where the code never reads it)
    words,              \* the Words
    char_to_word_index,
    root_exist,
    i,                  \* index of the word the loop is at
    k,                  \* rank of the next candidate of word i
    tried,              \* the candidates of word i read so far
    last,               \* the candidate read last, with what the code did with it
    writer,             \* the lines written, in order
    \* --- one call of convert_examples_to_features, for one Example ---------
    f_pc,               \* "idle", "start", "done" (Feature appended), "error"
    is_training,
    with_tags,          \* word_segmentation is True or use_gold_segmentation_in_test is True
    num_special_tokens,
    example_heads,      \* example.heads
    example_tag_indices,\* example.token_tag_indices[namespace], one namespace
    pieces,             \* get_tokenized_tokens: the number of sub-tokens of each unit
    feature,            \* the arrays built (kept when an assert fails)
    \* --- TokenLabelVocabulary(namespace, train_examples, num_label) --------
    v_pc,               \* "idle", "start", "read", "indexed", "error"
    train_tags,         \* token_tags[namespace] of each training Example
    num_label,
    vocabulary,         \* label_to_index and index_to_label
    token_tag_indices,  \* token_tag_indices[namespace] of each training Example
    \* --- one lookup index_to_label[index] of a predicted index --------------
    l_pc,               \* "idle", "start", "done" (a label came back), "error"
    l_index_to_label,   \* token_label_vocabulary[namespace].index_to_label
    l_index,            \* the predicted index
    l_label,            \* the label the lookup returned, "IndexError" if it raised
    \* --- jpp2conll_one_sentence on one morpheme line ------------------------
    p_pc,               \* "idle", "start", "returned" (get_pos came back), "done", "error"
    p_err,              \* the exception that ended the call, "" if none
    POS,                \* the table read_pos_list filled: key -> CoNLL tag
    hinsi,              \* items[9], the coarse part of speech
    bunrui,             \* items[11], the sub part of speech
    key,                \* get_pos's local key ("" before it is computed)
    conll_pos,          \* what get_pos returned ("" before it returns)
    output_lines,       \* jpp2conll_one_sentence's output_lines
    \* --- read_parsing_examples_from_buf, character mode, one sentence -------
    r_pc,               \* "idle", "lines" (the loop over the lines), "done"
    r_is_training,
    r_parsing,
    r_lines,            \* the sentence's lines: [word, head] (items[1], items[6])
    r_n,                \* the number of lines read
    r_words,            \* words: the characters read so far
    r_heads,            \* heads
    word_to_char_index,
    \* --- main's evaluation loop and write_predictions -----------------------
    w_pc,               \* "idle", "eval", "write", "done"
    local_rank,         \* args.local_rank
    num_examples,       \* len(eval_examples) = len(eval_features)
    eval_sampler,       \* the example indices in the order the dataloader yields them
    all_results,        \* per RawResult, the example whose scorer output it holds
    blocks,             \* the blocks written: the example, feature and result used
    \* --- modify_knp_for_tag_or_bunsetsu, one pass over the nodes ------------
    t_pc,               \* "idle", "merge" (the loop over the nodes), "done", "error"
    mode,               \* 'tag' or 'bunsetsu'
    head_ids,           \* head_ids[mrph_id]: the decoded head morpheme, -1 for ROOT
    dpnd_types,         \* dpnd_types[mrph_id]
    knp_tags,           \* the nodes as KNP parsed them
    tag_list,           \* the nodes: mrphs, parent, parent_id, dpndtype, children
    t_n,                \* the number of nodes the loop has been through
    scanned,            \* per node gone through, the morphemes whose head was read
    \* --- the predict loop of main around read_parsing_examples -------------
    m_pc,               \* "read" (line 1197), "body" (line 1214), "exit"
    knp_mode,           \* args.knp_mode
    single_sentence,    \* args.single_sentence
    stdin,              \* the lines of sys.stdin (Juman++ records, EOS, comments)
    stdin_pos,          \* the number of lines of sys.stdin consumed
    predict_file,       \* the lines of args.predict_file
    eval_examples,      \* what read_parsing_examples returned last
    iterations,         \* the number of times the loop body was entered
    outputs,            \* per call of write_predictions, the Examples it was given
    \* --- write_predictions, word mode, the block of one Example -----------
    wp_pc,              \* "idle", "lines" (line 624), "end" (line 644), "done", "error"
    wp_pieces,          \* the number of sub-tokens of each unit
    wp_feature,         \* feature.tok_to_orig_index and feature.orig_to_tok_index
    wp_heads,           \* result.heads, position 0..L-1 at index 1..L (0 where the
                        \* code never reads it)
    wp_lines,           \* example.lines: the head column and the other columns
    wp_writer           \* what was written: the lines, then the closing newline

decVars == <<pc, err, parsing, estimate_dep_label, use_gold_segmentation_in_test,
             example_words, gold_words, orig_to_tok_index, index_to_label,
             token_tags, words, char_to_word_index, root_exist, i, k, tried,
             last, writer>>

featVars == <<f_pc, is_training, with_tags, num_special_tokens, example_heads,
              example_tag_indices, pieces, feature>>

vocVars == <<v_pc, train_tags, num_label, vocabulary, token_tag_indices>>

lookVars == <<l_pc, l_index_to_label, l_index, l_label>>

posVars == <<p_pc, p_err, POS, hinsi, bunrui, key, conll_pos, output_lines>>

readVars == <<r_pc, r_is_training, r_parsing, r_lines, r_n, r_words, r_heads,
              word_to_char_index>>

predVars == <<w_pc, local_rank, num_examples, eval_sampler, all_results, blocks>>

treeVars == <<t_pc, mode, head_ids, dpnd_types, knp_tags, tag_list, t_n, scanned>>

loopVars == <<m_pc, knp_mode, single_sentence, stdin, stdin_pos, predict_file,
              eval_examples, iterations, outputs>>

wordVars == <<wp_pc, wp_pieces, wp_feature, wp_heads, wp_lines, wp_writer>>

auxVars == <<lookVars, posVars, readVars, predVars, treeVars, loopVars, wordVars>>

vars == <<decVars, featVars, vocVars, auxVars>>

\* --------------------------------------------------------------- decoder
\* token_label_vocabulary["dep_label"].index_to_label, as built in training
DepLabels == <<"D", "P">>

\* result.topk_dep_labels[pos][rank]: the label index paired with the candidate
\* of that rank.  The decoder copies it without looking into it, so one list
\* per position whose entries tell the ranks apart stands for all of them.
topk_dep_labels(pos, rank) == rank % Len(DepLabels)

\* class Word
Word(char_index) ==
    [char_index |-> char_index, string |-> <<>>, char_indices |-> <<>>,
     parent_word_index |-> None]

\* the branch for use_gold_segmentation_in_test: Words from example.gold_words
SegmentGold(gw) ==
    LET F[n \in 0..Len(gw)] ==
            IF n = 0 THEN [words |-> <<>>, char_to_word_index |-> <<>>, char_offset |-> 0]
            ELSE LET prev == F[n - 1]
                     word == gw[n]
                     w == [Word(prev.char_offset) EXCEPT
                             !.string = word,
                             !.char_indices =
                                 [j \in 1..Len(word) |-> prev.char_offset + j - 1]]
                 IN  [words |-> Append(prev.words, w),
                      char_to_word_index |->
                          prev.char_to_word_index \o [j \in 1..Len(word) |-> Len(prev.words)],
                      char_offset |-> prev.char_offset + Len(word)]
    IN  F[Len(gw)]

\* SegmentPredicted with char_to_word_index given len(words) for len(words) - 1
SegmentPredictedOffByOne(chars, itl, tags) ==
    LET F[n \in 0..Len(chars)] ==
            IF n = 0 THEN [words |-> <<>>, char_to_word_index |-> <<>>]
            ELSE LET prev == F[n - 1]
                     idx == n - 1
                     opened == IF idx = 0 \/ IndexToLabel(itl, tags[n]) = "B"
                               THEN Append(prev.words, Word(idx))
                               ELSE prev.words
                     m == Len(opened)
                 IN  [words |-> [opened EXCEPT
                                    ![m].string = Append(@, chars[n]),
                                    ![m].char_indices = Append(@, idx)],
                      char_to_word_index |-> Append(prev.char_to_word_index, m)]
    IN  F[Len(chars)]

\* the else branch: a new Word at character 0 and at every character whose
\* predicted tag index looks up "B"; every character joins the last Word
SegmentPredicted(chars, itl, tags) ==
    LET F[n \in 0..Len(chars)] ==
            IF n = 0 THEN [words |-> <<>>, char_to_word_index |-> <<>>]
            ELSE LET prev == F[n - 1]
                     idx == n - 1
                     opened == IF idx = 0 \/ IndexToLabel(itl, tags[n]) = "B"
                               THEN Append(prev.words, Word(idx))
                               ELSE prev.words
                     m == Len(opened)
                 IN  [words |-> [opened EXCEPT
                                    ![m].string = Append(@, chars[n]),
                                    ![m].char_indices = Append(@, idx)],
                      char_to_word_index |-> Append(prev.char_to_word_index, m - 1)]
    IN  F[Len(chars)]

RECURSIVE HasCycleWalk(_, _, _, _)
\* has_cycle's while loop from head_word_index; steps bounds the walk so
\* that a walk that would never return is reported as "NoReturn"
HasCycleWalk(head_word_index, ws, target_word_index, steps) ==
    IF ws[head_word_index + 1].parent_word_index = None THEN "False"
    ELSE IF ws[head_word_index + 1].parent_word_index = target_word_index THEN "True"
    ELSE IF steps = 0 THEN "NoReturn"
    ELSE HasCycleWalk(ws[head_word_index + 1].parent_word_index, ws,
                      target_word_index, steps - 1)

has_cycle(head_char_id, c2w, ws, target_word_index) ==
    HasCycleWalk(PyIndex(c2w, head_char_id - 1), ws, target_word_index, Len(ws))

\* CandidateOutcome taking ROOT whether or not a root exists already
CandidateOutcomeAnyRoot(head_char_id, idx, ws, c2w, rootExist) ==
    IF head_char_id = max_seq_length - 1 THEN "root"
    ELSE IF PyIn(head_char_id - 1, ws[idx + 1].char_indices) THEN "skip_self"
    ELSE IF head_char_id - 1 >= Len(c2w) THEN "skip_range"
    ELSE LET c == has_cycle(head_char_id, c2w, ws, idx)
         IN  IF c = "True" THEN "skip_cycle"
             ELSE IF c = "False" THEN "attach"
             ELSE "NoReturn"

\* what the loop over topk_heads does with candidate head_char_id of word
\* number idx: "root" and "attach" leave the loop (break), "NoReturn" is
\* has_cycle not returning, the others are the four continue statements
CandidateOutcome(head_char_id, idx, ws, c2w, rootExist) ==
    IF head_char_id = max_seq_length - 1
    THEN IF rootExist THEN "skip_root" ELSE "root"
    ELSE IF PyIn(head_char_id - 1, ws[idx + 1].char_indices) THEN "skip_self"
    ELSE IF head_char_id - 1 >= Len(c2w) THEN "skip_range"
    ELSE LET c == has_cycle(head_char_id, c2w, ws, idx)
         IN  IF c = "True" THEN "skip_cycle"
             ELSE IF c = "False" THEN "attach"
             ELSE "NoReturn"

\* the line writer.write emits for a word (the columns the decoder computes;
\* pos, subpos and feats are the placeholders of a run without tagging)
OutputLine(idx, word, head_id, dep_label) ==
    [index |-> idx + 1, word |-> word.string, pos |-> "dummy", subpos |-> "_",
     feats |-> "_", head |-> head_id, dep_label |-> dep_label]

\* get_word_segmentation_tag with the tests for "E" and "B" in the other
\* order: a word of one character is tagged "E"
get_word_segmentation_tag_EFirst(idx, char_num, training) ==
    IF ~training THEN UnknownTag
    ELSE IF idx = char_num - 1 THEN "E"
    ELSE IF idx = 0 THEN "B"
    ELSE "I"

\* get_word_segmentation_tag: BIE tagging
get_word_segmentation_tag(idx, char_num, training) ==
    IF ~training THEN UnknownTag
    ELSE IF idx = 0 THEN "B"
    ELSE IF idx = char_num - 1 THEN "E"
    ELSE "I"

\* get_outputs_for_word_segmentation: the "word_segmentation" tags of a word
WordSegmentationTags(word, training) ==
    [j \in 1..Len(word) |-> get_word_segmentation_tag(j - 1, Len(word), training)]

\* the tags of the characters of a word list, as read_parsing_examples_from_buf
\* extends token_tags word by word
ExampleSegmentationTags(ws, training) ==
    Concat([n \in 1..Len(ws) |-> WordSegmentationTags(ws[n], training)])

\* the word list that starts a word at character 1 and at the characters in
\* starts (every way to cut chars into non-empty words is one of these)
SplitAt(chars, starts) ==
    LET F[n \in 0..Len(chars)] ==
            IF n = 0 THEN <<>>
            ELSE IF n = 1 \/ n \in starts THEN Append(F[n - 1], <<chars[n]>>)
            ELSE [F[n - 1] EXCEPT ![Len(F[n - 1])] = Append(@, chars[n])]
    IN  F[Len(chars)]

WordLists(chars) == { SplitAt(chars, starts) : starts \in SUBSET (2..Len(chars)) }

\* every character sequence of an Example
CharSeqs == { SubSeq(Letters, 1, n) : n \in 1..MaxChars }

\* the index_to_label lists a training run can build for "word_segmentation"
SegVocabularies ==
    { read_examples(<<ExampleSegmentationTags(ws, TRUE)>>).index_to_label :
        ws \in UNION { WordLists(chars) : chars \in CharSeqs } }

NoCandidate == [word |-> None, k |-> None, pos |-> None, head_char_id |-> None,
                outcome |-> "none"]

DecInit ==
    /\ pc = "start"
    /\ err = ""
    /\ parsing \in BOOLEAN
    /\ estimate_dep_label \in BOOLEAN
    /\ use_gold_segmentation_in_test \in BOOLEAN
    /\ example_words \in CharSeqs
    /\ gold_words \in IF use_gold_segmentation_in_test
                      THEN WordLists(example_words) ELSE {<<>>}
    /\ \E pcs \in Tokenizations(Len(example_words)) :
          \* the Feature exists: [CLS], the sub-tokens and [SEP] leave room for ROOT
          /\ SumSeq(pcs) + 2 <= max_seq_length - 1
          /\ orig_to_tok_index = orig_to_tok_index_of(pcs)
    /\ index_to_label \in IF use_gold_segmentation_in_test
                          THEN {<<>>} ELSE SegVocabularies
    /\ token_tags \in IF use_gold_segmentation_in_test THEN {<<>>}
                      ELSE { t \in [1..Len(example_words) -> 0..(Len(index_to_label) - 1)] :
                               t[1] = 0 }
    /\ words = <<>>
    /\ char_to_word_index = <<>>
    /\ root_exist = FALSE
    /\ i = 0
    /\ k = 0
    /\ tried = {}
    /\ last = NoCandidate
    /\ writer = <<>>

\* lines 661-682: the Words, from the gold words or from the predicted tags
Segment ==
    /\ pc = "start"
    /\ LET seg == IF use_gold_segmentation_in_test
                  THEN SegmentGold(gold_words)
                  ELSE SegmentPredicted(example_words, index_to_label, token_tags)
       IN  /\ words' = seg.words
           /\ char_to_word_index' = seg.char_to_word_index
           /\ pc' = IF Len(seg.words) = 0 THEN "done" ELSE "head"
    /\ UNCHANGED <<featVars, vocVars, auxVars>>
    /\ UNCHANGED <<err, parsing, estimate_dep_label, use_gold_segmentation_in_test,
                   example_words, gold_words, orig_to_tok_index, index_to_label,
                   token_tags, root_exist, i, k, tried, last, writer>>

\* lines 722-761 for word i, then the loop's next word
WriteWord(head_id, dep_label) ==
    /\ writer' = Append(writer, OutputLine(i, words'[i + 1], head_id, dep_label))
    /\ i' = i + 1
    /\ k' = 0
    /\ tried' = {}
    /\ pc' = IF i + 1 = Len(words) THEN "done" ELSE "head"
    /\ err' = err

\* one pass of the loop over result.topk_heads[...] for word i (lines 687-712);
\* the scorer's candidate of rank k is drawn when the loop reads it
TryCandidate ==
    /\ pc = "head"
    /\ parsing
    /\ k < TopK
    /\ \E head_char_id \in (0..(max_seq_length - 1)) \ tried :
          LET outcome == CandidateOutcome(head_char_id, i, words, char_to_word_index,
                                          root_exist)
              pos == orig_to_tok_index[words[i + 1].char_index + 1] + 1
              dep_label == IF estimate_dep_label
                           THEN IndexToLabel(DepLabels, topk_dep_labels(pos, k))
                           ELSE "dummy"
              head_word == PyIndex(char_to_word_index, head_char_id - 1)
          IN  /\ last' = [word |-> i, k |-> k, pos |-> pos,
                          head_char_id |-> head_char_id, outcome |-> outcome]
              /\ CASE outcome = "root" ->
                        /\ root_exist' = TRUE
                        /\ words' = words
                        /\ WriteWord(0, dep_label)
                   [] outcome = "attach" ->
                        /\ root_exist' = root_exist
                        /\ words' = [words EXCEPT ![i + 1].parent_word_index = head_word]
                        /\ WriteWord(head_word + 1, dep_label)
                   [] outcome = "NoReturn" ->
                        /\ pc' = "hang"
                        /\ UNCHANGED <<err, words, root_exist, i, k, tried, writer>>
                   [] OTHER ->
                        /\ k' = k + 1
                        /\ tried' = tried \cup {head_char_id}
                        /\ UNCHANGED <<pc, err, words, root_exist, i, writer>>
    /\ UNCHANGED <<featVars, vocVars, auxVars>>
    /\ UNCHANGED <<parsing, estimate_dep_label, use_gold_segmentation_in_test,
                   example_words, gold_words, orig_to_tok_index, index_to_label,
                   token_tags, char_to_word_index>>

\* line 713: assert head_id is not None, after the candidates ran out
NoValidHead ==
    /\ pc = "head"
    /\ parsing
    /\ k = TopK
    /\ pc' = "error"
    /\ err' = "AssertionError"
    /\ UNCHANGED <<featVars, vocVars, auxVars>>
    /\ UNCHANGED <<parsing, estimate_dep_label, use_gold_segmentation_in_test,
                   example_words, gold_words, orig_to_tok_index, index_to_label,
                   token_tags, words, char_to_word_index, root_exist, i, k, tried,
                   last, writer>>

\* DummyHeadId making every word a root
DummyHeadIdAllRoot(idx) == 0

\* lines 716-719: the dummy head of word idx
DummyHeadId(idx) == IF idx = 0 THEN 0 ELSE 1

\* lines 714-720 and 722-761 without parsing: the dummy head; with
\* estimate_dep_label line 749 indexes index_to_label by the string "dummy"
DummyHead ==
    /\ pc = "head"
    /\ ~parsing
    /\ IF estimate_dep_label
       THEN /\ pc' = "error"
            /\ err' = "TypeError"
            /\ UNCHANGED <<words, i, k, tried, writer>>
       ELSE /\ words' = words
            /\ WriteWord(DummyHeadId(i), "dummy")
    /\ UNCHANGED <<featVars, vocVars, auxVars>>
    /\ UNCHANGED <<parsing, estimate_dep_label, use_gold_segmentation_in_test,
                   example_words, gold_words, orig_to_tok_index, index_to_label,
                   token_tags, char_to_word_index, root_exist, last>>


\* ------------------------------------------- convert_examples_to_features
\* tokenizer.convert_tokens_to_ids: the id of a token of the vocabulary
\* ([CLS], [SEP] and the sub-tokens alike: the builder never looks at it)
TokenId == 1

\* lines 494-504: the head target of the sub-token at index j
TokenHead(training, heads, pcs, j) ==
    LET head == heads[tok_to_orig_index_of(pcs)[j + 1] + 1]
    IN  IF ~training THEN -1
        ELSE IF head = 0 THEN max_seq_length - 1
        ELSE IF IsContinuation(pcs, j) \/ head = -1 THEN -1
        ELSE PyIndex(orig_to_tok_index_of(pcs), head - 1) + 1

\* lines 472-540: the arrays of one Example as they stand before the asserts
BuildArrays(training, tagged, nst, heads, tag_indices, pcs) ==
    LET ntok == SumSeq(pcs)
        t2o == tok_to_orig_index_of(pcs)
        \* [CLS], the sub-tokens, [SEP]
        ids0 == [j \in 1..(ntok + 2) |-> TokenId]
        heads0 == <<-1>> \o [j \in 1..ntok |-> TokenHead(training, heads, pcs, j - 1)]
                  \o <<-1>>
        tags0 == <<-1>> \o [j \in 1..ntok |-> tag_indices[t2o[j] + 1]] \o <<-1>>
        \* the while loop: zero-pad up to max_seq_length - num_special_tokens
        npad == IF Len(ids0) < max_seq_length - nst
                THEN max_seq_length - nst - Len(ids0) ELSE 0
        zeros == [j \in 1..npad |-> 0]
        unknown == [j \in 1..npad |-> -1]
    IN  [tokens |-> ntok + 2,
         input_ids |-> ids0 \o zeros \o <<vocab_size>>,
         input_mask |-> [j \in 1..(ntok + 2) |-> 1] \o zeros \o <<1>>,
         segment_ids |-> [j \in 1..(ntok + 2) |-> 0] \o zeros \o <<0>>,
         heads |-> heads0 \o unknown \o <<-1>>,
         \* token_tag_indices has a list per namespace of example.token_tag_indices
         token_tag_indices |-> IF tagged THEN <<tags0 \o unknown \o <<-1>>>> ELSE <<>>]

\* lines 542-549: the asserts on the lengths
LengthsOk(f) ==
    /\ Len(f.input_ids) = max_seq_length
    /\ Len(f.input_mask) = max_seq_length
    /\ Len(f.segment_ids) = max_seq_length
    /\ \A ns \in 1..Len(f.token_tag_indices) :
          Len(f.token_tag_indices[ns]) = max_seq_length
    /\ Len(f.heads) = max_seq_length

NoFeature == [tokens |-> 0, input_ids |-> <<>>, input_mask |-> <<>>,
              segment_ids |-> <<>>, heads |-> <<>>, token_tag_indices |-> <<>>]

FeatIdle ==
    /\ f_pc = "idle"
    /\ is_training = FALSE
    /\ with_tags = FALSE
    /\ num_special_tokens = 0
    /\ example_heads = <<>>
    /\ example_tag_indices = <<>>
    /\ pieces = <<>>
    /\ feature = NoFeature

\* An Example as the reader and the vocabulary leave it: at training time any
\* gold heads (-1, 0 = root, or a unit) and tag indices, otherwise all unknown
FeatInit ==
    /\ f_pc = "start"
    /\ is_training \in BOOLEAN
    /\ with_tags \in BOOLEAN
    \* preprocess_vocab: 0 when nothing is configured, 1 with parsing, the
    \* number of --special_tokens otherwise
    /\ num_special_tokens \in 0..2
    /\ \E n \in 1..MaxUnits :
          /\ pieces \in Tokenizations(n)
          /\ example_heads \in IF is_training THEN [1..n -> -1..n] ELSE {[u \in 1..n |-> -1]}
          /\ example_tag_indices \in
                IF ~with_tags THEN {<<>>}
                ELSE IF is_training THEN [1..n -> -1..1]
                ELSE {[u \in 1..n |-> -1]}
    /\ feature = NoFeature

\* the body of the loop over examples, for one Example
ConvertExample ==
    /\ f_pc = "start"
    /\ feature' = BuildArrays(is_training, with_tags, num_special_tokens,
                              example_heads, example_tag_indices, pieces)
    /\ f_pc' = IF LengthsOk(feature') THEN "done" ELSE "error"
    /\ UNCHANGED <<is_training, with_tags, num_special_tokens, example_heads,
                   example_tag_indices, pieces>>
    /\ UNCHANGED <<decVars, vocVars, auxVars>>

\* ------------------------------------------ TokenLabelVocabulary.__init__
VocIdle ==
    /\ v_pc = "idle"
    /\ train_tags = <<>>
    /\ num_label = None
    /\ vocabulary = EmptyVocabulary
    /\ token_tag_indices = <<>>

TagSet == {"N", "V", UnknownTag}

TagLists == UNION { [1..n -> TagSet] : n \in 1..MaxTags }

VocInit ==
    /\ v_pc = "start"
    /\ train_tags \in UNION { [1..n -> TagLists] : n \in 1..MaxExamples }
    /\ num_label \in {None} \cup 0..2
    /\ vocabulary = EmptyVocabulary
    /\ token_tag_indices = [e \in 1..Len(train_tags) |-> <<>>]

\* self.read_examples(train_examples), with its closing assert
ReadExamples ==
    /\ v_pc = "start"
    /\ vocabulary' = read_examples(train_tags)
    /\ v_pc' = IF NumLabelOk(num_label, vocabulary') THEN "read" ELSE "error"
    /\ num_label' = IF num_label = None THEN Len(vocabulary'.index_to_label)
                    ELSE num_label
    /\ UNCHANGED <<train_tags, token_tag_indices>>
    /\ UNCHANGED <<decVars, featVars, auxVars>>

\* self.add_indices(train_examples)
AddIndices ==
    /\ v_pc = "read"
    /\ token_tag_indices' =
          [e \in 1..Len(train_tags) |->
              token_tag_indices[e] \o add_indices(vocabulary, train_tags[e])]
    /\ v_pc' = "indexed"
    /\ UNCHANGED <<train_tags, num_label, vocabulary>>
    /\ UNCHANGED <<decVars, featVars, auxVars>>

DecIdle ==
    /\ pc = "idle"
    /\ err = ""
    /\ parsing = FALSE
    /\ estimate_dep_label = FALSE
    /\ use_gold_segmentation_in_test = FALSE
    /\ example_words = <<>>
    /\ gold_words = <<>>
    /\ orig_to_tok_index = <<>>
    /\ index_to_label = <<>>
    /\ token_tags = <<>>
    /\ words = <<>>
    /\ char_to_word_index = <<>>
    /\ root_exist = FALSE
    /\ i = 0
    /\ k = 0
    /\ tried = {}
    /\ last = NoCandidate
    /\ writer = <<>>

\* ------------------------------------------- index_to_label[index] lookups
\* largest number of labels of a vocabulary
MaxLabels == 3

LabelNames == <<"B", "I", "E", "S", "O">>

\* the index_to_label lists of up to MaxLabels labels (no label twice, as
\* read_examples builds them)
LabelLists ==
    UNION { { l \in [1..n -> { LabelNames[m] : m \in 1..MaxLabels }] :
                \A a, b \in 1..n : l[a] = l[b] => a = b } : n \in 0..MaxLabels }

LookIdle ==
    /\ l_pc = "idle"
    /\ l_index_to_label = <<>>
    /\ l_index = 0
    /\ l_label = ""

\* any vocabulary and any integer index around its range
LookInit ==
    /\ l_pc = "start"
    /\ l_index_to_label \in LabelLists
    /\ l_index \in (-(MaxLabels + 1))..(MaxLabels + 1)
    /\ l_label = ""

\* lines 675-676, 725, 733, 741, 749: index_to_label[index]
LabelOf ==
    /\ l_pc = "start"
    /\ l_label' = IndexToLabel(l_index_to_label, l_index)
    /\ l_pc' = IF l_label' = "IndexError" THEN "error" ELSE "done"
    /\ UNCHANGED <<l_index_to_label, l_index>>
    /\ UNCHANGED <<decVars, featVars, vocVars, posVars, readVars, predVars, treeVars, loopVars, wordVars>>

\* ------------------------------------------------ get_pos, jpp2conll
\* The Juman parts of speech are written in Latin letters: "miteigigo" is the
\* coarse part of speech of undefined words (line 234), "sonota" its sub part
\* of speech "other" (line 235), "meishi" noun, "futsuumeishi" common noun,
\* "joshi" particle.
Miteigigo == "miteigigo"

MiteigigoSonota == "miteigigo-sonota"

\* Python's None as get_pos returns it
PosNone == "None"

\* key in POS / POS[key] of a full pos list
FullPOS ==
    [kk \in {"meishi-futsuumeishi", "joshi", Miteigigo, MiteigigoSonota} |->
        CASE kk = "meishi-futsuumeishi" -> "NN"
          [] kk = "joshi" -> "PP"
          [] kk = Miteigigo -> "UNK"
          [] kk = MiteigigoSonota -> "UNK-OTHER"]

\* lines 232-237: the key get_pos looks up
PosKey(pos, spos) ==
    IF spos = "*" THEN pos
    ELSE IF pos = Miteigigo THEN MiteigigoSonota
    ELSE pos \o "-" \o spos

\* get_pos: POS[key] when the key is there; otherwise the assert of line 242
\* tests a non-empty string, passes, and the function falls off its end
get_pos(table, pos, spos) ==
    IF PosKey(pos, spos) \in DOMAIN table THEN table[PosKey(pos, spos)]
    ELSE PosNone

PosIdle ==
    /\ p_pc = "idle"
    /\ p_err = ""
    /\ POS = << >>
    /\ hinsi = ""
    /\ bunrui = ""
    /\ key = ""
    /\ conll_pos = ""
    /\ output_lines = <<>>

\* any pos list file (a part of the full table) and any morpheme
PosInit ==
    /\ p_pc = "start"
    /\ p_err = ""
    /\ \E ks \in SUBSET DOMAIN FullPOS : POS = [kk \in ks |-> FullPOS[kk]]
    /\ hinsi \in {"meishi", "joshi", Miteigigo}
    /\ bunrui \in {"*", "futsuumeishi", "sonota"}
    /\ key = ""
    /\ conll_pos = ""
    /\ output_lines = <<>>

\* line 265: conll_pos = get_pos(items[9], items[11])
GetPos ==
    /\ p_pc = "start"
    /\ key' = PosKey(hinsi, bunrui)
    /\ conll_pos' = get_pos(POS, hinsi, bunrui)
    /\ p_pc' = "returned"
    /\ UNCHANGED <<p_err, POS, hinsi, bunrui, output_lines>>
    /\ UNCHANGED <<decVars, featVars, vocVars, lookVars, readVars, predVars, treeVars, loopVars, wordVars>>

\* lines 266-277: the columns of the line; '\t'.join raises TypeError on None
AppendLine ==
    /\ p_pc = "returned"
    /\ IF conll_pos = PosNone
       THEN /\ p_pc' = "error"
            /\ p_err' = "TypeError"
            /\ output_lines' = output_lines
       ELSE /\ p_pc' = "done"
            /\ p_err' = p_err
            /\ output_lines' = Append(output_lines, [pos |-> conll_pos, subpos |-> conll_pos])
    /\ UNCHANGED <<POS, hinsi, bunrui, key, conll_pos>>
    /\ UNCHANGED <<decVars, featVars, vocVars, lookVars, readVars, predVars, treeVars, loopVars, wordVars>>

\* ------------------------- read_parsing_examples_from_buf, character mode
\* largest number of words of a sentence and of characters of a word
MaxWords == 3

MaxWordLen == 3

\* ConvertHeads keeping the 0-based character index (the + 1 left out)
ConvertHeadsZeroBased(heads, wtc) ==
    [n \in 1..Len(heads) |->
        IF heads[n] # -1 /\ heads[n] # 0
        THEN PyIndex(wtc, heads[n] - 1)
        ELSE heads[n]]

\* line 336: word heads to character heads (except -1 and 0 (Root))
ConvertHeads(heads, wtc) ==
    [n \in 1..Len(heads) |->
        IF heads[n] # -1 /\ heads[n] # 0
        THEN PyIndex(wtc, heads[n] - 1) + 1
        ELSE heads[n]]

\* WordHeads giving the word's head to each of its characters
WordHeadsEveryChar(word, head, prs) ==
    [j \in 1..Len(word) |-> IF prs THEN head ELSE -1]

\* get_outputs_for_word_segmentation: _heads of one word
WordHeads(word, head, prs) ==
    [j \in 1..Len(word) |-> IF j = 1 THEN (IF prs THEN head ELSE -1) ELSE -1]

\* the words a line can hold: only their length matters to the reader
ReadWordsOf == { [j \in 1..l |-> "c"] : l \in 1..MaxWordLen }

ReadIdle ==
    /\ r_pc = "idle"
    /\ r_is_training = FALSE
    /\ r_parsing = FALSE
    /\ r_lines = <<>>
    /\ r_n = 0
    /\ r_words = <<>>
    /\ r_heads = <<>>
    /\ word_to_char_index = <<>>

\* a sentence of a CoNLL buffer: every line a word and the head column
ReadInit ==
    /\ r_pc = "lines"
    /\ r_is_training \in BOOLEAN
    /\ r_parsing \in BOOLEAN
    \* the head column is any word, 0 or -1 where the reader keeps it; where it
    \* does not (prediction, or no parsing) it is the 0 of line 273
    /\ \E n \in 1..MaxWords :
          r_lines \in [1..n -> [word : ReadWordsOf,
                                head : IF r_is_training /\ r_parsing THEN -1..n ELSE {0}]]
    /\ r_n = 0
    /\ r_words = <<>>
    /\ r_heads = <<>>
    /\ word_to_char_index = <<>>

\* lines 357-382 for the next line of the sentence
ReadLine ==
    /\ r_pc = "lines"
    /\ r_n < Len(r_lines)
    /\ LET word == r_lines[r_n + 1].word
           head == IF r_is_training THEN r_lines[r_n + 1].head ELSE -1
       IN  /\ word_to_char_index' = Append(word_to_char_index, 0 + Len(r_words))
           /\ r_words' = r_words \o word
           /\ r_heads' = r_heads \o WordHeads(word, head, r_parsing)
    /\ r_n' = r_n + 1
    /\ UNCHANGED <<r_pc, r_is_training, r_parsing, r_lines>>
    /\ UNCHANGED <<decVars, featVars, vocVars, lookVars, posVars, predVars, treeVars, loopVars, wordVars>>

\* lines 332-348: the empty line that ends the sentence
EndSentence ==
    /\ r_pc = "lines"
    /\ r_n = Len(r_lines)
    /\ r_heads' = IF r_is_training
                  THEN ConvertHeads(r_heads, word_to_char_index)
                  ELSE [n \in 1..Len(r_heads) |-> -1]
    /\ r_pc' = "done"
    /\ UNCHANGED <<r_is_training, r_parsing, r_lines, r_n, r_words, word_to_char_index>>
    /\ UNCHANGED <<decVars, featVars, vocVars, lookVars, posVars, predVars, treeVars, loopVars, wordVars>>

\* ------------------------------------ main's evaluation, write_predictions
\* largest number of Examples of a prediction file
MaxEvalExamples == 4

\* the orders in which a sampler over n examples yields every index once
SamplerOrders(n) ==
    { q \in [1..n -> 0..(n - 1)] : \A a, b \in 1..n : q[a] = q[b] => a = b }

\* lines 1257-1260: SequentialSampler yields 0, 1, ...; DistributedSampler
\* (one process) yields the indices in a shuffled order
Samplers(rank, n) ==
    IF rank = -1 THEN { [a \in 1..n |-> a - 1] } ELSE SamplerOrders(n)

PredIdle ==
    /\ w_pc = "idle"
    /\ local_rank = -1
    /\ num_examples = 0
    /\ eval_sampler = <<>>
    /\ all_results = <<>>
    /\ blocks = <<>>

PredInit ==
    /\ w_pc = "eval"
    /\ local_rank \in {-1, 0}
    /\ num_examples \in 1..MaxEvalExamples
    /\ eval_sampler \in Samplers(local_rank, num_examples)
    /\ all_results = <<>>
    /\ blocks = <<>>

\* lines 1282-1309 for the next example the dataloader yields: its scorer
\* output is appended to all_results
AppendResult ==
    /\ w_pc = "eval"
    /\ all_results' = Append(all_results, eval_sampler[Len(all_results) + 1])
    /\ w_pc' = IF Len(all_results') = Len(eval_sampler) THEN "write" ELSE "eval"
    /\ UNCHANGED <<local_rank, num_examples, eval_sampler, blocks>>
    /\ UNCHANGED <<decVars, featVars, vocVars, lookVars, posVars, readVars, treeVars, loopVars, wordVars>>

\* write_predictions, lines 609-644 for the next example_index
WriteBlock ==
    /\ w_pc = "write"
    /\ LET example_index == Len(blocks)
       IN  blocks' = Append(blocks, [example |-> example_index,
                                     feature |-> example_index,
                                     result |-> all_results[example_index + 1]])
    /\ w_pc' = IF Len(blocks') = num_examples THEN "done" ELSE "write"
    /\ UNCHANGED <<local_rank, num_examples, eval_sampler, all_results>>
    /\ UNCHANGED <<decVars, featVars, vocVars, lookVars, posVars, readVars, treeVars, loopVars, wordVars>>

\* ---------------------------------------- modify_knp_for_tag_or_bunsetsu
\* largest number of morphemes of a sentence
MaxMrphs == 3

\* the ways KNP cuts the morphemes 0..M-1 into nodes: each node a run of
\* consecutive morphemes
NodeSpans(M) ==
    { SplitAt([m \in 1..M |-> m - 1], starts) : starts \in SUBSET (2..M) }

\* the trees KNP returns for the nodes spans: every node but the last has a
\* later node as parent, the last is the root (parent None, parent_id -1);
\* tag_id / bnst_id of a node is its index; every dpndtype is "D"
KnpTrees(spans) ==
    LET T == Len(spans)
    IN  { [n \in 1..T |->
             [mrphs |-> spans[n],
              parent |-> par[n],
              parent_id |-> par[n],
              dpndtype |-> "D",
              children |-> { c \in 0..(T - 1) : par[c + 1] = n - 1 }]] :
          par \in { q \in [1..T -> (0..(T - 1)) \cup {None}] :
                      /\ q[T] = None
                      /\ \A n \in 1..(T - 1) : q[n] # None /\ q[n] > n - 1 } }

\* lines 147-150: the node that holds morpheme mrph_id
mrph_id2tag(ts, mrph_id) ==
    CHOOSE n \in 0..(Len(ts) - 1) : PyIn(mrph_id, ts[n + 1].mrphs)

\* lines 154-159: the largest morpheme id of a node
last_mrph_id_in_tag(tag) ==
    CHOOSE m \in { tag.mrphs[j] : j \in 1..Len(tag.mrphs) } :
        \A j \in 1..Len(tag.mrphs) : tag.mrphs[j] <= m

RECURSIVE ScanMrphs(_, _, _, _, _, _)
\* lines 161-185: the loop over the morphemes of one node from position j
\* on; read collects the morphemes whose head was read
ScanMrphs(tag, ts, hids, dtypes, j, read) ==
    IF j > Len(tag.mrphs) THEN [tag |-> tag, read |-> read, raised |-> ""]
    ELSE LET mrph_id == tag.mrphs[j]
             mrph_head_id == hids[mrph_id + 1]
             seen == Append(read, mrph_id)
         IN  IF mrph_head_id = -1
             THEN [tag |-> tag, read |-> seen, raised |-> ""]
             ELSE IF mrph_head_id > last_mrph_id_in_tag(tag)
             THEN IF tag.parent = None
                  THEN [tag |-> tag, read |-> seen, raised |-> "AttributeError"]
                  ELSE LET new_parent_id == mrph_id2tag(ts, mrph_head_id)
                           old_parent_id == tag.parent
                           typed == [tag EXCEPT !.dpndtype = dtypes[mrph_id + 1]]
                       IN  IF new_parent_id # old_parent_id
                           THEN [tag |-> [typed EXCEPT !.parent_id = new_parent_id,
                                                       !.parent = new_parent_id],
                                 read |-> seen, raised |-> ""]
                           ELSE ScanMrphs(typed, ts, hids, dtypes, j + 1, seen)
             ELSE ScanMrphs(tag, ts, hids, dtypes, j + 1, seen)

TreeIdle ==
    /\ t_pc = "idle"
    /\ mode = ""
    /\ head_ids = <<>>
    /\ dpnd_types = <<>>
    /\ knp_tags = <<>>
    /\ tag_list = <<>>
    /\ t_n = 0
    /\ scanned = <<>>

\* a KNP tree over 1..MaxMrphs morphemes, and for every morpheme any head
\* get_head_ids_types can give it (-1 or a morpheme) and a dependency type
TreeInit ==
    /\ t_pc = "merge"
    /\ mode \in {"tag", "bunsetsu"}
    /\ \E M \in 1..MaxMrphs :
          /\ head_ids \in [1..M -> -1..(M - 1)]
          /\ dpnd_types \in [1..M -> {"D", "P"}]
          /\ \E spans \in NodeSpans(M) : knp_tags \in KnpTrees(spans)
    /\ tag_list = knp_tags
    /\ t_n = 0
    /\ scanned = <<>>

\* lines 152-185 for the next node
ModifyTag ==
    /\ t_pc = "merge"
    /\ LET scan == ScanMrphs(tag_list[t_n + 1], tag_list, head_ids, dpnd_types, 1, <<>>)
       IN  /\ tag_list' = [tag_list EXCEPT ![t_n + 1] = scan.tag]
           /\ scanned' = Append(scanned, scan.read)
           /\ t_pc' = IF scan.raised # "" THEN "error"
                      ELSE IF t_n + 1 = Len(tag_list) THEN "done"
                      ELSE "merge"
    /\ t_n' = t_n + 1
    /\ UNCHANGED <<mode, head_ids, dpnd_types, knp_tags>>
    /\ UNCHANGED <<decVars, featVars, vocVars, lookVars, posVars, readVars, predVars, loopVars, wordVars>>

\* ------------------------------------------------ the predict loop of main
\* largest number of lines of sys.stdin and of the predict file
MaxStdinLines == 4

MaxFileLines == 4

\* the lines Juman++ can send: EOS, a comment, a morpheme record with its id
\* (items[1]); n is the position of the line in the stream
StdinLineKinds == { <<"EOS", 0>>, <<"#", 0>>, <<"m", 1>>, <<"m", 2>> }

StdinStreams ==
    UNION { { [j \in 1..n |-> [kind |-> ks[j][1], id |-> ks[j][2], n |-> j]] :
              ks \in [1..n -> StdinLineKinds] } : n \in 0..MaxStdinLines }

\* the lines of a file in the column format: a word line, a comment, a blank
PredictFiles ==
    UNION { { [j \in 1..n |-> [kind |-> ks[j], n |-> j]] :
              ks \in [1..n -> {"word", "#", ""}] } : n \in 0..MaxFileLines }

RECURSIVE Jpp2ConllLines(_, _, _)
\* lines 248-277: the loop of jpp2conll_one_sentence from line j on
Jpp2ConllLines(buf, j, prev_id) ==
    IF j > Len(buf) THEN <<>>
    ELSE IF buf[j].kind = "#"
         THEN <<[kind |-> "#", n |-> buf[j].n]>> \o Jpp2ConllLines(buf, j + 1, prev_id)
    ELSE IF buf[j].kind = "EOS" THEN <<>>
    ELSE IF prev_id = buf[j].id THEN Jpp2ConllLines(buf, j + 1, prev_id)
    ELSE <<[kind |-> "word", n |-> buf[j].n]>> \o Jpp2ConllLines(buf, j + 1, buf[j].id)

\* lines 245-278: the lines of the sentence and a blank line
jpp2conll_one_sentence(buf) ==
    Jpp2ConllLines(buf, 1, 0) \o <<[kind |-> "", n |-> 0]>>

RECURSIVE ReadStdinKeepsOn(_, _, _, _, _)
\* the loop of lines 291-297 without the break of lines 296-297
ReadStdinKeepsOn(lines, pos, buf, buf_conll, multi_sentences) ==
    IF pos >= Len(lines) THEN [buf_conll |-> buf_conll, pos |-> pos]
    ELSE LET line == lines[pos + 1]
             read == Append(buf, line)
         IN  IF line.kind = "EOS"
             THEN ReadStdinKeepsOn(lines, pos + 1, <<>>,
                                   buf_conll \o jpp2conll_one_sentence(read),
                                   multi_sentences)
             ELSE ReadStdinKeepsOn(lines, pos + 1, read, buf_conll, multi_sentences)

RECURSIVE ReadStdin(_, _, _, _, _)
\* lines 291-297: for line in sys.stdin, from the line after pos on
ReadStdin(lines, pos, buf, buf_conll, multi_sentences) ==
    IF pos >= Len(lines) THEN [buf_conll |-> buf_conll, pos |-> pos]
    ELSE LET line == lines[pos + 1]
             read == Append(buf, line)
         IN  IF line.kind = "EOS"
             THEN IF ~multi_sentences
                  THEN [buf_conll |-> buf_conll \o jpp2conll_one_sentence(read),
                        pos |-> pos + 1]
                  ELSE ReadStdin(lines, pos + 1, <<>>,
                                 buf_conll \o jpp2conll_one_sentence(read),
                                 multi_sentences)
             ELSE ReadStdin(lines, pos + 1, read, buf_conll, multi_sentences)

RECURSIVE ExamplesFromBuf(_, _, _, _, _)
\* lines 319-395 of read_parsing_examples_from_buf: the loop over the lines
\* from line j on, with the Examples appended so far, the words of the block
\* being read and its comment
ExamplesFromBuf(buf, j, examples, block, comment) ==
    IF j > Len(buf) THEN examples
    ELSE IF buf[j].kind = "#"
         THEN ExamplesFromBuf(buf, j + 1, examples, block, buf[j].n)
    ELSE IF buf[j].kind = ""
         THEN ExamplesFromBuf(buf, j + 1,
                              Append(examples, [example_id |-> Len(examples),
                                                words |-> block,
                                                comment |-> comment]),
                              <<>>, None)
    ELSE ExamplesFromBuf(buf, j + 1, examples, Append(block, buf[j].n), comment)

\* lines 311-395
read_parsing_examples_from_buf(buf) == ExamplesFromBuf(buf, 1, <<>>, <<>>, None)

\* lines 286-308; the result and the position reached in sys.stdin
read_parsing_examples(lines, pos, file, knp, multi_sentences) ==
    LET got == IF knp THEN ReadStdin(lines, pos, <<>>, <<>>, multi_sentences)
               ELSE [buf_conll |-> file, pos |-> pos]
    IN  [examples |-> IF got.buf_conll = <<>> THEN <<>>
                      ELSE read_parsing_examples_from_buf(got.buf_conll),
         pos |-> got.pos]

LoopIdle ==
    /\ m_pc = "idle"
    /\ knp_mode = FALSE
    /\ single_sentence = FALSE
    /\ stdin = <<>>
    /\ stdin_pos = 0
    /\ predict_file = <<>>
    /\ eval_examples = <<>>
    /\ iterations = 0
    /\ outputs = <<>>

\* do_predict: with knp_mode any stream on sys.stdin, otherwise any file
LoopInit ==
    /\ m_pc = "read"
    /\ knp_mode \in BOOLEAN
    /\ single_sentence \in BOOLEAN
    /\ IF knp_mode
       THEN stdin \in StdinStreams /\ predict_file = <<>>
       ELSE stdin = <<>> /\ predict_file \in PredictFiles
    /\ stdin_pos = 0
    /\ eval_examples = <<>>
    /\ iterations = 0
    /\ outputs = <<>>

\* lines 1196-1212: the head of an iteration, up to the break on no Example
ReadExamplesOfIteration ==
    /\ m_pc = "read"
    /\ LET got == read_parsing_examples(stdin, stdin_pos, predict_file, knp_mode,
                                        ~single_sentence)
       IN  /\ eval_examples' = got.examples
           /\ stdin_pos' = got.pos
           /\ m_pc' = IF Len(got.examples) = 0 THEN "exit" ELSE "body"
    /\ iterations' = iterations + 1
    /\ UNCHANGED <<knp_mode, single_sentence, stdin, predict_file, outputs>>
    /\ UNCHANGED <<decVars, featVars, vocVars, lookVars, posVars, readVars, predVars,
                   treeVars, wordVars>>

\* lines 1214-1331: the rest of the iteration, write_predictions on the
\* Examples read and the break outside knp_mode
PredictAndWrite ==
    /\ m_pc = "body"
    /\ outputs' = Append(outputs, eval_examples)
    /\ m_pc' = IF ~knp_mode THEN "exit" ELSE "read"
    /\ UNCHANGED <<knp_mode, single_sentence, stdin, stdin_pos, predict_file,
                   eval_examples, iterations>>
    /\ UNCHANGED <<decVars, featVars, vocVars, lookVars, posVars, readVars, predVars,
                   treeVars, wordVars>>

\* ------------------------------------------ write_predictions, word mode
\* the head column of a line the reader produced at test time (line 386)
HeadAsRead == -1

\* lines 627-632 with Python's subscript: the head written for the best-head
\* position pred_head_id; raised when the subscript raises IndexError
WordHead(pred_head_id, tok_to_orig_index) ==
    IF pred_head_id = max_seq_length - 1 THEN [raised |-> FALSE, head |-> 0]
    ELSE IF pred_head_id - 1 >= Len(tok_to_orig_index)
              \/ pred_head_id - 1 < -Len(tok_to_orig_index)
         THEN [raised |-> TRUE, head |-> None]
    ELSE [raised |-> FALSE, head |-> PyIndex(tok_to_orig_index, pred_head_id - 1) + 1]

WordIdle ==
    /\ wp_pc = "idle"
    /\ wp_pieces = <<>>
    /\ wp_feature = [tok_to_orig_index |-> <<>>, orig_to_tok_index |-> <<>>]
    /\ wp_heads = <<>>
    /\ wp_lines = <<>>
    /\ wp_writer = <<>>

\* an Example of 1..MaxUnits units read at test time, a Feature that passed
\* the length asserts of convert_examples_to_features, and for the first
\* sub-token of every unit any best-head position 0..L-1
WordInit ==
    /\ wp_pc = "lines"
    /\ \E n \in 1..MaxUnits :
          /\ wp_pieces \in { pcs \in Tokenizations(n) :
                               SumSeq(pcs) + 2 <= max_seq_length - 1 }
          /\ wp_lines = [u \in 1..n |-> [columns |-> u, head |-> HeadAsRead]]
          /\ \E hs \in [1..n -> 0..(max_seq_length - 1)] :
                wp_heads = [q \in 1..max_seq_length |->
                              IF \E u \in 1..n : orig_to_tok_index_of(wp_pieces)[u] + 2 = q
                              THEN hs[CHOOSE u \in 1..n :
                                        orig_to_tok_index_of(wp_pieces)[u] + 2 = q]
                              ELSE 0]
    /\ wp_feature = [tok_to_orig_index |-> tok_to_orig_index_of(wp_pieces),
                     orig_to_tok_index |-> orig_to_tok_index_of(wp_pieces)]
    /\ wp_writer = <<>>

\* lines 624-642 for the next line of example.lines
WriteWordLine ==
    /\ wp_pc = "lines"
    /\ LET line_num == Len(wp_writer)
           pred_head_id == wp_heads[wp_feature.orig_to_tok_index[line_num + 1] + 1 + 1]
           got == WordHead(pred_head_id, wp_feature.tok_to_orig_index)
       IN  IF got.raised
           THEN /\ wp_pc' = "error"
                /\ wp_writer' = wp_writer
           ELSE /\ wp_writer' = Append(wp_writer,
                                       [columns |-> wp_lines[line_num + 1].columns,
                                        head |-> got.head,
                                        pred_head_id |-> pred_head_id])
                /\ wp_pc' = IF line_num + 1 = Len(wp_lines) THEN "end" ELSE "lines"
    /\ UNCHANGED <<wp_pieces, wp_feature, wp_heads, wp_lines>>
    /\ UNCHANGED <<decVars, featVars, vocVars, lookVars, posVars, readVars, predVars,
                   treeVars, loopVars>>

\* line 644: the newline that closes the block
EndBlock ==
    /\ wp_pc = "end"
    /\ wp_writer' = Append(wp_writer, [columns |-> 0, head |-> 0, pred_head_id |-> 0])
    /\ wp_pc' = "done"
    /\ UNCHANGED <<wp_pieces, wp_feature, wp_heads, wp_lines>>
    /\ UNCHANGED <<decVars, featVars, vocVars, lookVars, posVars, readVars, predVars,
                   treeVars, loopVars>>

AuxIdle ==
    LookIdle /\ PosIdle /\ ReadIdle /\ PredIdle /\ TreeIdle /\ LoopIdle /\ WordIdle

\* --------------------------------------------------------- specifications
\* one call of write_predictions_word_segmentation, for every setting of the
\* flags, every segmentation and every candidate list of the scorer
Init == DecInit /\ FeatIdle /\ VocIdle /\ AuxIdle

Next == Segment \/ TryCandidate \/ NoValidHead \/ DummyHead

Spec == Init /\ [][Next]_vars

\* convert_examples_to_features on one Example
InitFeature == FeatInit /\ DecIdle /\ VocIdle /\ AuxIdle

NextFeature == ConvertExample

SpecFeature == InitFeature /\ [][NextFeature]_vars

\* the construction of a TokenLabelVocabulary from the training Examples
InitVocab == VocInit /\ DecIdle /\ FeatIdle /\ AuxIdle

NextVocab == ReadExamples \/ AddIndices

SpecVocab == InitVocab /\ [][NextVocab]_vars

\* one lookup of a label by index
InitLookup == LookInit /\ DecIdle /\ FeatIdle /\ VocIdle /\ PosIdle /\ ReadIdle /\ PredIdle /\ TreeIdle /\ LoopIdle
        /\ WordIdle

NextLookup == LabelOf

SpecLookup == InitLookup /\ [][NextLookup]_vars

\* jpp2conll_one_sentence on one morpheme
InitPos == PosInit /\ DecIdle /\ FeatIdle /\ VocIdle /\ LookIdle /\ ReadIdle /\ PredIdle /\ TreeIdle /\ LoopIdle
        /\ WordIdle

NextPos == GetPos \/ AppendLine

SpecPos == InitPos /\ [][NextPos]_vars

\* the reader on one sentence, in character mode
InitRead == ReadInit /\ DecIdle /\ FeatIdle /\ VocIdle /\ LookIdle /\ PosIdle /\ PredIdle /\ TreeIdle /\ LoopIdle
        /\ WordIdle

NextRead == ReadLine \/ EndSentence

SpecRead == InitRead /\ [][NextRead]_vars

\* the evaluation of a prediction file and the writing of its blocks
InitPredict ==
    PredInit /\ DecIdle /\ FeatIdle /\ VocIdle /\ LookIdle /\ PosIdle /\ ReadIdle
        /\ TreeIdle /\ LoopIdle /\ WordIdle

NextPredict == AppendResult \/ WriteBlock

SpecPredict == InitPredict /\ [][NextPredict]_vars

\* one pass of the tree merge over the nodes of a sentence
InitTree ==
    TreeInit /\ DecIdle /\ FeatIdle /\ VocIdle /\ LookIdle /\ PosIdle /\ ReadIdle
        /\ PredIdle /\ LoopIdle /\ WordIdle

NextTree == ModifyTag

SpecTree == InitTree /\ [][NextTree]_vars

\* the predict loop of main
InitLoop ==
    LoopInit /\ DecIdle /\ FeatIdle /\ VocIdle /\ LookIdle /\ PosIdle /\ ReadIdle
        /\ PredIdle /\ TreeIdle /\ WordIdle

NextLoop == ReadExamplesOfIteration \/ PredictAndWrite

SpecLoop == InitLoop /\ [][NextLoop]_vars

\* the loop is sequential code: an iteration that can run does run
SpecLoopFair == SpecLoop /\ WF_vars(NextLoop)

\* write_predictions in word mode, the block of one Example
InitWord ==
    WordInit /\ DecIdle /\ FeatIdle /\ VocIdle /\ LookIdle /\ PosIdle /\ ReadIdle
        /\ PredIdle /\ TreeIdle /\ LoopIdle

NextWord == WriteWordLine \/ EndBlock

SpecWord == InitWord /\ [][NextWord]_vars

\* ------------------------------------------------------------- the claims
NumWords == Len(words)

\* the head column written for word number idx
HeadOf(idx) == writer[idx + 1].head

RECURSIVE ReachesRoot(_, _)
\* walking parent_word_index from word idx arrives, within steps steps, at a
\* word that has no parent and was written as root
ReachesRoot(idx, steps) ==
    IF words[idx + 1].parent_word_index = None THEN HeadOf(idx) = 0
    ELSE IF steps = 0 THEN FALSE
    ELSE ReachesRoot(words[idx + 1].parent_word_index, steps - 1)

\* C1: after a decode with parsing, walking the parent pointers from any word
\* reaches a root word within N steps (N the number of words): no cycle, a
\* self-loop included -- for every candidate list over 0..L-1.
C1_NoCycle ==
    (pc = "done" /\ parsing) => \A idx \in 0..(NumWords - 1) : ReachesRoot(idx, NumWords)

\* C2: when head decoding completes without error, exactly one word has head
\* 0 and every other word has a head in 1..N.
C2_ExactlyOneRoot ==
    (pc = "done" /\ parsing /\ NumWords >= 1) =>
        /\ Cardinality({ idx \in 0..(NumWords - 1) : HeadOf(idx) = 0 }) = 1
        /\ \A idx \in 0..(NumWords - 1) : HeadOf(idx) \in 0..NumWords

RECURSIVE ChainReaches(_, _, _, _)
\* the parent chain of word from (from included) contains word target
ChainReaches(from, target, ws, steps) ==
    \/ from = target
    \/ /\ ws[from + 1].parent_word_index # None
       /\ steps > 0
       /\ ChainReaches(ws[from + 1].parent_word_index, target, ws, steps - 1)

\* candidate p is admissible for word idx, as the claim defines it: ROOT while
\* no earlier word is root, or a position whose character p - 1 is in range,
\* outside the word's own span and whose owning word does not lead back to idx
Admissible(p, idx, ws) ==
    IF p = max_seq_length - 1
    THEN ~(\E n \in 0..(idx - 1) : HeadOf(n) = 0)
    ELSE /\ p - 1 \in 0..(Len(char_to_word_index) - 1)
         /\ ~PyIn(p - 1, ws[idx + 1].char_indices)
         /\ ~ChainReaches(char_to_word_index[p], idx, ws, Len(ws))

\* C3: the decoder accepts a candidate exactly when it is admissible (so the
\* candidate it stops at is the first admissible one in rank order) and
\* writes the label paired with the same rank.
C3_FirstAdmissible ==
    last.outcome # "none" =>
        LET idx == last.word
            accepted == last.outcome \in {"root", "attach"}
            before == IF accepted
                      THEN [words EXCEPT ![idx + 1].parent_word_index = None]
                      ELSE words
        IN  /\ accepted <=> Admissible(last.head_char_id, idx, before)
            /\ (accepted /\ estimate_dep_label) =>
                  writer[idx + 1].dep_label =
                      DepLabels[topk_dep_labels(last.pos, last.k) + 1]

\* C10: when decoding fails because a word has no admissible candidate, no
\* line of the Example's tree has been written.
C10_NoPartialTree ==
    (pc = "error" /\ err = "AssertionError") => writer = <<>>

\* the label the predicted tag of character n (1-based) looks up
PredictedLabel(n) == IndexToLabel(index_to_label, token_tags[n])

\* the character indices of word n of the word list ws
SpanOf(ws, n) ==
    LET offset == Len(Concat(SubSeq(ws, 1, n - 1)))
    IN  [j \in 1..Len(ws[n]) |-> offset + j - 1]

\* C7: when the predicted tags are the BIE tags get_word_segmentation_tag
\* gives the characters of a word list (the tag of character 0 is never
\* read), the segmentation decode returns exactly that word list, each Word
\* with the character indices of its word.
C7_RoundTrip ==
    (pc # "start" /\ ~use_gold_segmentation_in_test) =>
        \A ws \in WordLists(example_words) :
            (\A n \in 2..Len(example_words) :
                PredictedLabel(n) = ExampleSegmentationTags(ws, TRUE)[n])
            => /\ Len(words) = Len(ws)
               /\ \A n \in 1..Len(ws) :
                     /\ words[n].string = ws[n]
                     /\ words[n].char_indices = SpanOf(ws, n)

\* three characters tagged B, I, E decoded to one Word of characters 0, 1, 2
C7_Witness ==
    /\ pc # "start"
    /\ ~use_gold_segmentation_in_test
    /\ Len(example_words) = 3
    /\ PredictedLabel(2) = "I"
    /\ PredictedLabel(3) = "E"
    /\ Len(words) = 1
    /\ words[1].char_indices = <<0, 1, 2>>

\* C8: the char_indices of the Words partition 0..C-1: each Word's indices are
\* contiguous from its char_index, the Words follow one another without gap
\* or overlap, and char_to_word_index[c] is the Word that holds c.
C8_Partition ==
    pc # "start" =>
        /\ Len(char_to_word_index) = Len(example_words)
        /\ Concat([n \in 1..Len(words) |-> words[n].char_indices]) =
               [c \in 1..Len(example_words) |-> c - 1]
        /\ \A n \in 1..Len(words) :
              /\ Len(words[n].char_indices) >= 1
              /\ \A j \in 1..Len(words[n].char_indices) :
                    /\ words[n].char_indices[j] = words[n].char_index + j - 1
                    /\ char_to_word_index[words[n].char_indices[j] + 1] = n - 1

\* predicted tags that cut three characters into a Word of two and a Word of one
C8_Witness ==
    /\ pc # "start"
    /\ ~use_gold_segmentation_in_test
    /\ Len(words) = 2
    /\ words[1].char_indices = <<0, 1>>
    /\ words[2].char_indices = <<2>>
    /\ char_to_word_index = <<0, 0, 1>>

\* the sub-token indices (0-based) of the Example handed to the builder
SubTokens == 0..(SumSeq(pieces) - 1)

\* C4: in a Feature built at training time every continuation sub-token has
\* head target -1, whatever the gold head of its unit.
C4_ContinuationHeadUnknown ==
    (f_pc = "done" /\ is_training) =>
        \A j \in SubTokens : IsContinuation(pieces, j) => feature.heads[j + 2] = -1

\* C5: when [CLS] + sub-tokens + [SEP] has at most L-1 entries the builder
\* returns a Feature whose arrays have length exactly L, with ROOT (id
\* vocab_size, mask 1, head -1) at index L-1 -- for every num_special_tokens.
C5_LengthExactlyL ==
    (f_pc # "start" /\ f_pc # "idle" /\ SumSeq(pieces) + 2 <= max_seq_length - 1) =>
        /\ f_pc = "done"
        /\ LengthsOk(feature)
        /\ feature.input_ids[max_seq_length] = vocab_size
        /\ feature.input_mask[max_seq_length] = 1
        /\ feature.heads[max_seq_length] = -1

\* C6: in a Feature built with tags, the tag-index array holds -1 at every
\* continuation sub-token; only the first sub-token of a unit has its tag.
C6_ContinuationTagUnknown ==
    (f_pc = "done" /\ with_tags) =>
        \A j \in SubTokens :
            feature.token_tag_indices[1][j + 2] =
                IF IsContinuation(pieces, j) THEN -1
                ELSE example_tag_indices[tok_to_orig_index_of(pieces)[j + 1] + 1]

\* C9: after the vocabulary is built, every tag t other than -1 of the
\* training Examples has index_to_label[label_to_index[t]] = t, the index
\* add_indices stored for an occurrence of t maps back to t, and a -1 tag is
\* stored as -1.
C9_VocabularyRoundTrip ==
    /\ v_pc \in {"read", "indexed"} =>
          \A e \in 1..Len(train_tags) : \A n \in 1..Len(train_tags[e]) :
              LET t == train_tags[e][n]
              IN  t # UnknownTag =>
                    /\ t \in DOMAIN vocabulary.label_to_index
                    /\ IndexToLabel(vocabulary.index_to_label,
                                    vocabulary.label_to_index[t]) = t
    /\ v_pc = "indexed" =>
          \A e \in 1..Len(train_tags) :
              /\ Len(token_tag_indices[e]) = Len(train_tags[e])
              /\ \A n \in 1..Len(train_tags[e]) :
                    LET t == train_tags[e][n]
                        idx == token_tag_indices[e][n]
                    IN  IF t = UnknownTag THEN idx = -1
                        ELSE /\ idx \in 0..(Len(vocabulary.index_to_label) - 1)
                             /\ vocabulary.index_to_label[idx + 1] = t

\* a vocabulary of two labels built from Examples that also hold a -1 tag and
\* a repeated tag, with the indices added
C9_Witness ==
    /\ v_pc = "indexed"
    /\ Len(vocabulary.index_to_label) = 2
    /\ Len(train_tags) = 2
    /\ \E e \in 1..Len(train_tags) : \E n \in 1..Len(train_tags[e]) :
          train_tags[e][n] = UnknownTag /\ token_tag_indices[e][n] = -1
    /\ train_tags[1][1] = train_tags[2][1]
    /\ train_tags[1][1] # UnknownTag

\* C11: for an Example whose [CLS] + sub-tokens + [SEP] sequence exceeds L-1
\* entries the builder fails, and it fails on a length check made before any
\* head target is derived and before padding or ROOT is added: at the failure
\* no head array and nothing beyond the tokens' ids has been built.
C11_TooLongRejectedFirst ==
    (f_pc \notin {"idle", "start"} /\ SumSeq(pieces) + 2 > max_seq_length - 1) =>
        /\ f_pc = "error"
        /\ feature.heads = <<>>
        /\ Len(feature.input_ids) <= feature.tokens

\* C12: looking up a label by an index that is negative or >= the number of
\* labels fails; no label comes back for such an index.
C12_LookupOutOfRangeFails ==
    (l_pc \notin {"idle", "start"}
        /\ (l_index < 0 \/ l_index >= Len(l_index_to_label))) =>
        l_pc = "error"

\* C13: when the key of a morpheme is absent from the POS table, the record's
\* ingestion aborts at the lookup: get_pos does not return (no None, no
\* default), and no line is produced.
C13_UnknownPosAbortsAtLookup ==
    (p_pc \notin {"idle", "start"} /\ key \notin DOMAIN POS) =>
        /\ p_pc = "error"
        /\ conll_pos = ""
        /\ output_lines = <<>>

\* C15: get_pos with the coarse part of speech of undefined words and sub
\* part of speech "*" looks up the key "<undefined word>-<other>", not the
\* coarse-only key.
C15_UndefinedWordKey ==
    (p_pc \notin {"idle", "start"} /\ hinsi = Miteigigo /\ bunrui = "*") =>
        key = MiteigigoSonota

\* the sentence of the scenario: words of 2, 1 and 3 characters with the
\* word-level heads 2, 0, 2, read at training time with parsing
IsScenario14 ==
    /\ r_is_training
    /\ r_parsing
    /\ Len(r_lines) = 3
    /\ [n \in 1..3 |-> Len(r_lines[n].word)] = <<2, 1, 3>>
    /\ [n \in 1..3 |-> r_lines[n].head] = <<2, 0, 2>>

\* C14: character-mode reading at training time gives one head per
\* character: at the first character of a word the 1-based index of the
\* first character of its head word (0 for the root), -1 at every other
\* character; for the scenario this is [3,-1,0,3,-1,-1], one entry for each
\* of the six characters.
C14_CharacterHeads ==
    (r_pc = "done" /\ r_is_training /\ r_parsing) =>
        /\ Len(r_heads) = Len(r_words)
        /\ \A n \in 1..Len(r_lines) :
              LET first == word_to_char_index[n] + 1
                  head == r_lines[n].head
              IN  /\ r_heads[first] =
                        IF head \in {0, -1} THEN head ELSE word_to_char_index[head] + 1
                  /\ \A j \in 2..Len(r_lines[n].word) : r_heads[first + j - 1] = -1
        /\ IsScenario14 => r_heads = <<3, -1, 0, 3, -1, -1>>

\* the scenario's sentence read to its end
C14_Witness ==
    /\ r_pc = "done"
    /\ IsScenario14
    /\ Len(r_words) = 6
    /\ word_to_char_index = <<0, 2, 3>>

\* C14 as stated: the scenario gives the seven heads [3,-1,0,-1,3,-1,-1].
C14_AsStated ==
    (r_pc = "done" /\ IsScenario14) => r_heads = <<3, -1, 0, -1, 3, -1, -1>>

\* C16: one block per Example, in Example order, the block of Example i made
\* from the Feature and from the scorer result of Example i -- whatever the
\* order in which the results were delivered.
C16_BlocksInExampleOrder ==
    /\ \A n \in 1..Len(blocks) :
          blocks[n] = [example |-> n - 1, feature |-> n - 1, result |-> n - 1]
    /\ w_pc = "done" => Len(blocks) = num_examples

\* the tags of the training Examples in reading order
FlatTags == Concat(train_tags)

\* the distinct tags other than -1
SeenTags == { FlatTags[q] : q \in 1..Len(FlatTags) } \ {UnknownTag}

\* where tag t occurs first
FirstOccurrence(t) ==
    CHOOSE q \in 1..Len(FlatTags) :
        FlatTags[q] = t /\ \A q2 \in 1..(q - 1) : FlatTags[q2] # t

\* C17: after read_examples label_to_index maps the distinct tags other than
\* -1 one-to-one onto 0..n-1 in the order of their first occurrence,
\* index_to_label is its inverse and num_label is n; the build has failed
\* exactly when a declared num_label differs from n.
C17_DenseFirstOccurrence ==
    LET n == Cardinality(SeenTags)
        l2i == vocabulary.label_to_index
        i2l == vocabulary.index_to_label
    IN  /\ v_pc \in {"read", "indexed"} =>
              /\ DOMAIN l2i = SeenTags
              /\ Len(i2l) = n
              /\ \A t \in SeenTags : l2i[t] \in 0..(n - 1) /\ i2l[l2i[t] + 1] = t
              /\ \A a, b \in 1..n :
                    a < b => FirstOccurrence(i2l[a]) < FirstOccurrence(i2l[b])
              /\ num_label = n
        /\ v_pc = "error" => (num_label # None /\ num_label # n)

\* two labels met in the order "V", "N" among tags that also hold a -1
C17_Witness ==
    /\ v_pc = "read"
    /\ vocabulary.index_to_label = <<"V", "N">>
    /\ vocabulary.label_to_index["N"] = 1
    /\ UnknownTag \in { FlatTags[q] : q \in 1..Len(FlatTags) }
    /\ num_label = 2

\* C18: a candidate position other than ROOT whose character index p - 1 is
\* outside 0..C-1 (below 0: the [CLS] position 0; at or above C: [SEP] and
\* padding) is skipped and never becomes a word's head.
C18_OutOfRangeSkipped ==
    (last.outcome # "none"
        /\ last.head_char_id # max_seq_length - 1
        /\ last.head_char_id - 1 \notin 0..(Len(char_to_word_index) - 1)) =>
        last.outcome \in {"skip_self", "skip_range", "skip_cycle"}

\* the words written as root so far (1-based numbers)
RootWords == { n \in 1..Len(writer) : writer[n].head = 0 }

\* C20: at every point of head decode at most one word has been written as
\* root and root_exist tells whether one has; a ROOT candidate (position L-1)
\* read while an earlier word is root is skipped and the word goes on to its
\* next rank, and a ROOT candidate read while no word is root is taken.
C20_AtMostOneRoot ==
    parsing =>
        /\ Cardinality(RootWords) <= 1
        /\ root_exist <=> RootWords # {}
        /\ (last.outcome # "none" /\ last.head_char_id = max_seq_length - 1) =>
              IF \E n \in RootWords : n - 1 < last.word
              THEN /\ last.outcome = "skip_root"
                   /\ i = last.word
                   /\ k = last.k + 1
                   /\ Len(writer) = last.word
              ELSE /\ last.outcome = "root"
                   /\ RootWords = {last.word + 1}

\* word 0 is the root and a later word has just had its ROOT candidate skipped
C20_Witness ==
    /\ parsing
    /\ last.outcome = "skip_root"
    /\ last.word >= 1
    /\ writer[1].head = 0
    /\ root_exist

\* the sub-token counts behind feature.orig_to_tok_index (the count of the
\* last character is not in it and is not needed for a first sub-token)
PiecesOf(o2t) ==
    [u \in 1..Len(o2t) |-> IF u < Len(o2t) THEN o2t[u + 1] - o2t[u] ELSE 1]

RECURSIVE GoldReachesRoot(_, _, _)
\* following the gold heads gh from word n (1-based) arrives at the root
GoldReachesRoot(gh, n, steps) ==
    IF gh[n] = 0 THEN TRUE
    ELSE IF steps = 0 THEN FALSE
    ELSE GoldReachesRoot(gh, gh[n], steps - 1)

\* the gold word-level heads of a sentence of N words: a tree with one root
GoldTrees(N) ==
    { gh \in [1..N -> 0..N] :
        /\ Cardinality({ n \in 1..N : gh[n] = 0 }) = 1
        /\ \A n \in 1..N : GoldReachesRoot(gh, n, N) }

\* the character-level heads the reader makes of the gold words and heads
GoldCharHeads(gw, gh) ==
    ConvertHeads(Concat([n \in 1..Len(gw) |-> WordHeads(gw[n], gh[n], TRUE)]),
                 [n \in 1..Len(gw) |-> Len(Concat(SubSeq(gw, 1, n - 1)))])

\* the head target the feature builder derives at the first sub-token of the
\* first character of word idx
GoldTarget(gh, idx) ==
    TokenHead(TRUE, GoldCharHeads(gold_words, gh), PiecesOf(orig_to_tok_index),
              orig_to_tok_index[words[idx + 1].char_index + 1])

\* C19: with the gold segmentation, when the top candidate of a word is the
\* head target the feature builder derived from gold heads gh, and the words
\* before it were written with their gold heads, the word is written with
\* its gold head -- for every sub-tokenization, characters of more than one
\* sub-token included.
C19_EncodeDecodeAgree ==
    (parsing /\ use_gold_segmentation_in_test /\ last.outcome # "none" /\ last.k = 0) =>
        \A gh \in GoldTrees(Len(gold_words)) :
            (/\ last.head_char_id = GoldTarget(gh, last.word)
             /\ \A n \in 1..last.word : writer[n].head = gh[n])
            => /\ Len(writer) > last.word
               /\ writer[last.word + 1].head = gh[last.word + 1]

\* the same agreement for Examples whose characters all have one sub-token
C19_SinglePieces ==
    (\A u \in 1..Len(orig_to_tok_index) : orig_to_tok_index[u] = u - 1) =>
        C19_EncodeDecodeAgree

\* the words as has_cycle saw them when the last candidate was read: an
\* accepted candidate has since set the parent of its word
WordsBeforeLast ==
    IF last.outcome = "attach"
    THEN [words EXCEPT ![last.word + 1].parent_word_index = None]
    ELSE words

\* C21: every call of has_cycle during a decode pass returns, and it returns
\* True exactly when the parent chain that starts at the candidate's owning
\* word reaches the word being assigned.
C21_HasCycleExact ==
    /\ pc # "hang"
    /\ last.outcome \in {"skip_cycle", "attach", "NoReturn"} =>
          /\ last.outcome # "NoReturn"
          /\ last.outcome = "skip_cycle" <=>
                ChainReaches(PyIndex(char_to_word_index, last.head_char_id - 1),
                             last.word, WordsBeforeLast, Len(words))

\* every call of has_cycle during a decode pass returns
HasCycleReturns == pc # "hang" /\ last.outcome # "NoReturn"

\* the heads written so far are the placeholders: 0 for the first word, 1
\* for every other word
PlaceholderHeads ==
    \A n \in 1..Len(writer) : writer[n].head = IF n = 1 THEN 0 ELSE 1

\* C22: when parsing was not requested, the heads written are the
\* placeholders, and no candidate of the scorer is read.
C22_PlaceholderWithoutParsing ==
    ~parsing => (PlaceholderHeads /\ last.outcome = "none")

\* a decode without parsing that wrote two words or more
C22_Witness ==
    /\ ~parsing
    /\ pc = "done"
    /\ Len(writer) >= 2
    /\ writer[2].head = 1

\* C22 as stated: when word segmentation was not requested (the words are
\* the gold words) the heads written are the placeholders.
C22_AsStated ==
    (use_gold_segmentation_in_test /\ pc = "done") => PlaceholderHeads

\* the number of characters before word n (1-based) of the sentence read
FirstCharOf(n) == Len(Concat([m \in 1..(n - 1) |-> r_lines[m].word]))

MrphsOf(n) == { tag_list[n].mrphs[j] : j \in 1..Len(tag_list[n].mrphs) }

\* position j of node n is reached by the scan with no ROOT head before it
NoRootBefore(n, j) ==
    \A q \in 1..(j - 1) : head_ids[tag_list[n].mrphs[q] + 1] # -1

\* the decoded head of the morpheme at position j of node n
HeadAt(n, j) == head_ids[tag_list[n].mrphs[j] + 1]

\* C24: for every node the loop has been through, once the first morpheme
\* whose decoded head lies after the node's last morpheme has been found, no
\* later morpheme of the node is examined.
C24_FirstOutOfSpanWins ==
    \A n \in 1..t_n :
        \A j \in 1..Len(tag_list[n].mrphs) :
            ( /\ NoRootBefore(n, j + 1)
              /\ HeadAt(n, j) > last_mrph_id_in_tag(tag_list[n]) )
            => Len(scanned[n]) <= j

\* C25: a node the loop has been through whose parent is the one KNP gave it
\* keeps the dependency type KNP gave it.
C25_TypeOnlyWithParent ==
    \A n \in 1..t_n :
        tag_list[n].parent = knp_tags[n].parent
            => tag_list[n].dpndtype = knp_tags[n].dpndtype

\* C26: for every node the loop has been through, when exactly one of its
\* morphemes has a decoded head that is not one of the node's own morphemes
\* and that head is a morpheme, before or after the node, the node ends up
\* with the owning node of that head as parent.
C26_OutOfSpanBothSides ==
    \A n \in 1..t_n :
        \A j \in 1..Len(tag_list[n].mrphs) :
            ( /\ HeadAt(n, j) # -1
              /\ \A q \in 1..Len(tag_list[n].mrphs) :
                    q # j => HeadAt(n, q) \in MrphsOf(n)
              /\ HeadAt(n, j) \notin MrphsOf(n) )
            => tag_list[n].parent = mrph_id2tag(tag_list, HeadAt(n, j))

\* C30: when the pass is over, every node's parent_id is the id of its
\* parent, and the node is in the children of its parent and of no other node.
C30_NavigationConsistent ==
    t_pc = "done" =>
        \A n \in 1..Len(tag_list) :
            /\ tag_list[n].parent_id = tag_list[n].parent
            /\ \A m \in 1..Len(tag_list) :
                  (n - 1) \in tag_list[m].children <=> tag_list[n].parent = m - 1


\* ---- the predict loop -----------------------------------------------------
\* the number of EOS lines of sys.stdin before line p
EOSBefore(p) == Cardinality({ q \in 1..(p - 1) : stdin[q].kind = "EOS" })

\* the number of EOS-terminated sentences of sys.stdin
NumSentences == EOSBefore(Len(stdin) + 1)

\* the Examples given to write_predictions, over all iterations, in order
AllWritten == Concat(outputs)

\* line p of sys.stdin is the first morpheme record of an EOS-terminated
\* sentence
FirstMorpheme(p) ==
    /\ stdin[p].kind = "m"
    /\ EOSBefore(p) < NumSentences
    /\ \A q \in 1..(p - 1) : stdin[q].kind = "m" => EOSBefore(q) < EOSBefore(p)

\* what holds of the loop at every moment
C27_LoopSafety ==
    /\ ~knp_mode => iterations <= 1
    /\ (m_pc = "exit" /\ ~knp_mode) => iterations = 1
    /\ (m_pc = "exit" /\ knp_mode) =>
          /\ stdin_pos = Len(stdin)
          /\ eval_examples = <<>>
          /\ Len(AllWritten) = NumSentences
          /\ \A b \in 1..Len(AllWritten) :
                \A j \in 1..Len(AllWritten[b].words) :
                    /\ stdin[AllWritten[b].words[j]].kind = "m"
                    /\ EOSBefore(AllWritten[b].words[j]) = b - 1
          /\ \A p \in 1..Len(stdin) :
                FirstMorpheme(p) => AllWritten[EOSBefore(p) + 1].words[1] = p
          /\ single_sentence =>
                /\ iterations = NumSentences + 1
                /\ \A it \in 1..Len(outputs) : Len(outputs[it]) = 1

RECURSIVE RunsOf(_, _, _)
\* the maximal runs of word lines of buf from line j on, a run ending at a
\* blank line or at the end of the buffer; run is the run being collected
RunsOf(buf, j, run) ==
    IF j > Len(buf) THEN (IF run = <<>> THEN <<>> ELSE <<run>>)
    ELSE IF buf[j].kind = ""
         THEN (IF run = <<>> THEN <<>> ELSE <<run>>) \o RunsOf(buf, j + 1, <<>>)
    ELSE IF buf[j].kind = "#" THEN RunsOf(buf, j + 1, run)
    ELSE RunsOf(buf, j + 1, Append(run, buf[j].n))

\* C29: the Examples read from the predict file are its maximal runs of word
\* lines, one Example per run, in order, with example_id 0, 1, 2, ...; a last
\* run without a blank line after it is among them, and no Example has zero
\* units.
C29_OneExamplePerRun ==
    (m_pc # "read" /\ ~knp_mode) =>
        /\ Len(eval_examples) = Len(RunsOf(predict_file, 1, <<>>))
        /\ \A e \in 1..Len(eval_examples) :
              /\ eval_examples[e].example_id = e - 1
              /\ eval_examples[e].words = RunsOf(predict_file, 1, <<>>)[e]


\* ---- write_predictions, word mode ------------------------------------------
\* the number of units and of sub-tokens of the Example being written
NumUnits == Len(wp_lines)

NumSubTokens == Len(wp_feature.tok_to_orig_index)

\* the best-head position the scorer returned for the first sub-token of
\* unit u (1-based)
BestHead(u) == wp_heads[wp_feature.orig_to_tok_index[u] + 2]

\* C28: whatever positions 0..L-1 the scorer returned, the block is written
\* to its end without a failure; the line of every unit carries a head in
\* 0..N, 0 for the ROOT slot L-1, the 1-based index of the owning unit for a
\* sub-token position, and no unit for [CLS], [SEP] and padding; the other
\* columns are the ones read.
C28_WordModeHeads ==
    /\ wp_pc # "error"
    /\ \A u \in 1..NumUnits :
          u <= Len(wp_writer) =>
              /\ wp_writer[u].columns = wp_lines[u].columns
              /\ wp_writer[u].head \in 0..NumUnits
              /\ BestHead(u) = max_seq_length - 1 => wp_writer[u].head = 0
              /\ BestHead(u) \in 1..NumSubTokens =>
                    wp_writer[u].head = wp_feature.tok_to_orig_index[BestHead(u)] + 1
              /\ BestHead(u) \notin (1..NumSubTokens) => wp_writer[u].head \notin 1..NumUnits

====
